---- MODULE Spec2Model ----
(***************************************************************************)
(* sublinear: a dev-only stand-in for a hosted project-tracking GraphQL    *)
(* API (src/src/lib.rs).  The model holds the ten tables of the store, the *)
(* deployment configuration, the requests in flight (one storage statement *)
(* per step where another request's write can fall between two statements *)
(* of a handler) and the response of the request that completed last.      *)
(***************************************************************************)
EXTENDS Integers, Sequences, FiniteSets, Bags, TLC

VARIABLES
    users,            \* table users
    teams,            \* table teams
    team_members,     \* table team_members
    workflow_states,  \* table workflow_states
    projects,         \* table projects
    project_teams,    \* table project_teams
    issues,           \* table issues
    labels,           \* table labels
    issue_labels,     \* table issue_labels
    comments,         \* table comments
    clock,            \* the next value now_iso() returns
    nextId,           \* the next token short_id() returns
    cfg,              \* Config: require_auth, api_key
    procs,            \* the requests in flight, a bag
    last              \* the response of the request that completed last

store == <<users, teams, team_members, workflow_states, projects,
           project_teams, issues, labels, issue_labels, comments>>

vars == <<users, teams, team_members, workflow_states, projects,
          project_teams, issues, labels, issue_labels, comments,
          clock, nextId, cfg, procs, last>>

----------------------------------------------------------------------------
(* Bounds of the model. *)

\* The logical clock stops here: start-up takes instant 0, the timestamped
\* writes after it the instants 1 .. MaxClock - 1.
MaxClock == 3

\* Requests that can be in flight at the same time.
MaxProcs == 2

----------------------------------------------------------------------------
(* Option<T>: None is the empty sequence, Some(x) the one-element one. *)

None == <<>>

Some(x) == <<x>>

IsSome(o) == o # None

Unwrap(o) == o[1]

\* Option::unwrap_or with the default replaced by the least limit.
unwrap_or_least(o, d) == IF IsSome(o) THEN Unwrap(o) ELSE 1

unwrap_or(o, d) == IF IsSome(o) THEN Unwrap(o) ELSE d

Min2(a, b) == IF a < b THEN a ELSE b

\* The lower bound alone.
clamp_from_below(v, lo, hi) == IF v < lo THEN lo ELSE v

\* Ord::clamp
clamp(v, lo, hi) == IF v < lo THEN lo ELSE IF v > hi THEN hi ELSE v

----------------------------------------------------------------------------
(* Text that the code takes apart character by character (project names    *)
(* and slugs) is a sequence of one-character strings.                      *)

UpperChars == <<"A", "B", "C", "D", "E", "F", "G", "H", "I", "J", "K", "L", "M",
                "N", "O", "P", "Q", "R", "S", "T", "U", "V", "W", "X", "Y", "Z">>

LowerChars == <<"a", "b", "c", "d", "e", "f", "g", "h", "i", "j", "k", "l", "m",
                "n", "o", "p", "q", "r", "s", "t", "u", "v", "w", "x", "y", "z">>

DigitChars == <<"0", "1", "2", "3", "4", "5", "6", "7", "8", "9">>

Range(s) == {s[k] : k \in DOMAIN s}

is_ascii_alphanumeric(c) ==
    c \in Range(UpperChars) \cup Range(LowerChars) \cup Range(DigitChars)

to_ascii_lowercase(c) ==
    IF c \in Range(UpperChars)
    THEN LowerChars[CHOOSE k \in DOMAIN UpperChars : UpperChars[k] = c]
    ELSE c

\* The decimal digits of n >= 0, as format!("{i}") writes them.
RECURSIVE DecimalChars(_)
DecimalChars(n) ==
    IF n < 10 THEN <<DigitChars[n + 1]>>
    ELSE DecimalChars(n \div 10) \o <<DigitChars[(n % 10) + 1]>>

\* The loop of slugify: out and prev_dash after the characters input[k..].
RECURSIVE SlugifyLoop(_, _, _, _)
SlugifyLoop(input, k, out, prev_dash) ==
    IF k > Len(input) THEN out
    ELSE IF is_ascii_alphanumeric(input[k])
         THEN SlugifyLoop(input, k + 1, Append(out, to_ascii_lowercase(input[k])), FALSE)
         ELSE IF ~prev_dash
              THEN SlugifyLoop(input, k + 1, Append(out, "-"), TRUE)
              ELSE SlugifyLoop(input, k + 1, out, prev_dash)

\* str::trim_matches('-')
RECURSIVE TrimDashes(_)
TrimDashes(s) ==
    IF s = <<>> THEN s
    ELSE IF Head(s) = "-" THEN TrimDashes(Tail(s))
    ELSE IF s[Len(s)] = "-" THEN TrimDashes(SubSeq(s, 1, Len(s) - 1))
    ELSE s

slugify(input) ==
    LET out == TrimDashes(SlugifyLoop(input, 1, <<>>, FALSE))
    IN  IF out = <<>> THEN <<"p", "r", "o", "j", "e", "c", "t">> ELSE out

----------------------------------------------------------------------------
(* Config and the values seed_defaults writes. *)

\* Config.base_url (SUBLINEAR_BASE_URL), cut into pieces with every slash a
\* piece of its own.
BaseUrl == <<"http:", "/", "/", "localhost:8787", "/", "/">>

\* str::trim_end_matches('/')
RECURSIVE trim_trailing_slash(_)
trim_trailing_slash(input) ==
    IF input # <<>> /\ input[Len(input)] = "/"
    THEN trim_trailing_slash(SubSeq(input, 1, Len(input) - 1))
    ELSE input

\* The pieces as one text.
RECURSIVE as_str(_)
as_str(pieces) ==
    IF pieces = <<>> THEN "" ELSE Head(pieces) \o as_str(Tail(pieces))

ViewerId == "viewer_default"

TeamId == "team_default"

SeedTeamKey == "SYN"

SeedTeamName == "Synth"

SeedViewerName == "Sublinear Dev"

SeedViewerEmail == "sublinear@example.com"

\* SUBLINEAR_API_KEY values: a key, and the same key with a leading space
\* (from_env keeps the variable as it is, filtering only the empty value).
ApiKey == <<"k", "e", "y">>

PaddedApiKey == <<" ">> \o ApiKey

\* Config::from_env: SUBLINEAR_REQUIRE_AUTH and SUBLINEAR_API_KEY.
Configs ==
    [require_auth : BOOLEAN, api_key : {None, Some(ApiKey), Some(PaddedApiKey)}]

\* Config::from_env with neither variable set.
DefaultConfig == [require_auth |-> TRUE, api_key |-> None]

----------------------------------------------------------------------------
(* The Authorization header of a request: missing, a value to_str()        *)
(* refuses, or a text of characters.                                       *)

MissingHeader == [kind |-> "missing", value |-> <<>>]

\* A value with bytes outside visible ASCII: HeaderValue::to_str fails.
OpaqueHeader == [kind |-> "opaque", value |-> <<>>]

TextHeader(v) == [kind |-> "text", value |-> v]

\* char::is_whitespace on the characters a header text can hold.
Whitespace == {" ", "\t"}

Bearer == <<"B", "e", "a", "r", "e", "r", " ">>

Credentials ==
    {<<>>, ApiKey, Bearer \o ApiKey, <<"b">> \o Tail(Bearer) \o ApiKey,
     Bearer, ApiKey \o <<"x">>, <<"x">>, Bearer \o PaddedApiKey}

Leads == {<<>>, <<" ">>, <<"\t">>, <<" ", " ">>}

Trails == {<<>>, <<" ">>}

Headers ==
    {MissingHeader, OpaqueHeader}
      \cup {TextHeader(l \o c \o t) : l \in Leads, c \in Credentials, t \in Trails}

RECURSIVE trim_start(_)
trim_start(s) ==
    IF s # <<>> /\ Head(s) \in Whitespace THEN trim_start(Tail(s)) ELSE s

RECURSIVE trim_end(_)
trim_end(s) ==
    IF s # <<>> /\ s[Len(s)] \in Whitespace
    THEN trim_end(SubSeq(s, 1, Len(s) - 1))
    ELSE s

\* The text taken as it came.
trim_nothing(s) == s

\* str::trim
trim(s) == trim_end(trim_start(s))

\* The prefix compared without regard to its case.
bearer_form_lowercase(expected) == <<"b">> \o Tail(Bearer) \o expected

\* format!("Bearer {expected}")
bearer_form(expected) == Bearer \o expected

is_authorized(h, c) ==
    IF ~c.require_auth THEN TRUE
    ELSE IF h.kind = "missing" THEN FALSE
    ELSE IF h.kind = "opaque" THEN FALSE
    ELSE LET trimmed == trim(h.value)
         IN  IF trimmed = <<>> THEN FALSE
             ELSE IF IsSome(c.api_key)
                  THEN LET expected == Unwrap(c.api_key)
                       IN  trimmed = expected \/ trimmed = bearer_form(expected)
                  ELSE TRUE

\* A gate that lets every request through.
ensure_auth_open(authorized) == TRUE

\* ensure_auth: authorized is RequestAuth.authorized of the request.
ensure_auth(authorized) ==
    IF ~cfg.require_auth THEN TRUE ELSE authorized

\* What graphql_handler can put in RequestAuth under each configuration.
Authorizations == [c \in Configs |-> {is_authorized(h, c) : h \in Headers}]

RequestAuths == Authorizations[cfg]

----------------------------------------------------------------------------
(* Schema bootstrap: migrate creates the tables (the UNIQUE and PRIMARY    *)
(* KEY constraints are stated with the inserts below), seed_defaults       *)
(* fills them.                                                             *)

\* short_id(): a token no earlier call returned.
short_id(n) == ToString(n)

\* The INSERT of ensure_workflow_state without the COUNT(*) before it.
ensure_workflow_state_unchecked(acc, team_id, name, kind, position) ==
    [ws   |-> acc.ws \cup {[id |-> "state_" \o ToString(acc.next),
                             team_id |-> team_id, name |-> name,
                             type |-> kind, position |-> position]},
     next |-> acc.next + 1]

\* ensure_workflow_state: acc.ws is the table, acc.next the next token.
ensure_workflow_state(acc, team_id, name, kind, position) ==
    LET c == Cardinality({w \in acc.ws : w.team_id = team_id /\ w.name = name})
    IN  IF c = 0
        THEN [ws   |-> acc.ws \cup {[id |-> "state_" \o short_id(acc.next),
                                     team_id |-> team_id, name |-> name,
                                     type |-> kind, position |-> position]},
              next |-> acc.next + 1]
        ELSE acc

seed_users(u, now) ==
    IF Cardinality(u) = 0
    THEN u \cup {[id |-> ViewerId, name |-> SeedViewerName,
                  email |-> SeedViewerEmail, created_at |-> now]}
    ELSE u

seed_teams(t, now) ==
    IF Cardinality(t) = 0
    THEN t \cup {[id |-> TeamId, name |-> SeedTeamName, key |-> SeedTeamKey,
                  created_at |-> now]}
    ELSE t

\* INSERT OR IGNORE INTO team_members
seed_team_members(tm) == tm \cup {[team_id |-> TeamId, user_id |-> ViewerId]}

seed_workflow_states(ws, next) ==
    LET a0 == [ws |-> ws, next |-> next]
        a1 == ensure_workflow_state(a0, TeamId, "Backlog", "unstarted", 0)
        a2 == ensure_workflow_state(a1, TeamId, "In Progress", "started", 1)
        a3 == ensure_workflow_state(a2, TeamId, "In Review", "started", 2)
        a4 == ensure_workflow_state(a3, TeamId, "Done", "completed", 3)
    IN  ensure_workflow_state(a4, TeamId, "Canceled", "canceled", 4)

NoResponse ==
    [op |-> "start", status |-> "ok", touched |-> FALSE, success |-> FALSE,
     id |-> "", nodes |-> <<>>]

\* run_from_env on an empty store: migrate, seed_defaults, then serve.
Start(c) ==
    /\ users = seed_users({}, 0)
    /\ teams = seed_teams({}, 0)
    /\ team_members = seed_team_members({})
    /\ workflow_states = seed_workflow_states({}, 1).ws
    /\ nextId = seed_workflow_states({}, 1).next
    /\ projects = {}
    /\ project_teams = {}
    /\ issues = {}
    /\ labels = {}
    /\ issue_labels = {}
    /\ comments = {}
    /\ clock = 1
    /\ cfg = c
    /\ procs = EmptyBag
    /\ last = NoResponse

Init == Start(DefaultConfig)

----------------------------------------------------------------------------
(* Reads. *)

\* The COUNT(*) answered as if the row were there.
count_assumed(table, id) == 1

\* count(conn, "SELECT COUNT(*) ... WHERE id = ?1")
count_by_id(table, id) == Cardinality({r \in table : r.id = id})

\* fetch_one: the row of the table with this primary key, if any.
fetch_by_id(table, id) ==
    IF \E r \in table : r.id = id
    THEN Some(CHOOSE r \in table : r.id = id)
    ELSE None

clamp_limit(first) == clamp(unwrap_or(first, 50), 1, 500)

\* LIMIT n of an ordered result.
Limit(rows, n) == SubSeq(rows, 1, Min2(n, Len(rows)))

RECURSIVE order_by_updated_at_desc(_)
order_by_updated_at_desc(S) ==
    IF S = {} THEN <<>>
    ELSE LET m == CHOOSE r \in S : \A q \in S : q.updated_at <= r.updated_at
         IN  <<m>> \o order_by_updated_at_desc(S \ {m})

RECURSIVE order_by_created_at_desc(_)
order_by_created_at_desc(S) ==
    IF S = {} THEN <<>>
    ELSE LET m == CHOOSE r \in S : \A q \in S : q.created_at <= r.created_at
         IN  <<m>> \o order_by_created_at_desc(S \ {m})

RECURSIVE order_by_position_asc(_)
order_by_position_asc(S) ==
    IF S = {} THEN <<>>
    ELSE LET m == CHOOSE r \in S : \A q \in S : r.position <= q.position
         IN  <<m>> \o order_by_position_asc(S \ {m})

\* The team names of the model in ascending order (ORDER BY name ASC).
TeamNames == <<SeedTeamName>>

NameRank(n) == CHOOSE k \in DOMAIN TeamNames : TeamNames[k] = n

RECURSIVE order_by_name_asc(_)
order_by_name_asc(S) ==
    IF S = {} THEN <<>>
    ELSE LET m == CHOOSE r \in S :
                    \A q \in S \ {r} : NameRank(r.name) <= NameRank(q.name)
         IN  <<m>> \o order_by_name_asc(S \ {m})

Ids(rows) == [k \in DOMAIN rows |-> rows[k].id]

\* Option::and_then(|v| v.field), as_ref().and_then(|v| v.field.as_ref())
and_then(o, field) == IF IsSome(o) THEN Unwrap(o)[field] ELSE None

\* Option::filter(|v| !v.is_empty())
\* The Option kept whatever it holds: no .filter(|v| !v.is_empty()).
non_empty_unfiltered(o, empty) == o

non_empty(o, empty) == IF IsSome(o) /\ Unwrap(o) # empty THEN o ELSE None

\* `n as i64` of an f64 given in tenths: truncation toward zero.
f64_as_i64(tenths) ==
    IF tenths >= 0 THEN tenths \div 10 ELSE -((-tenths) \div 10)

\* LEFT JOIN: the joined row, or None (every column NULL).
joined(table, id) == IF IsSome(id) THEN fetch_by_id(table, Unwrap(id)) ELSE None

\* get_viewer: the first user by created_at.
get_viewer ==
    IF users = {} THEN None
    ELSE Some(CHOOSE u \in users : \A v \in users : u.created_at <= v.created_at)

list_teams(filter, first) ==
    LET limit == clamp_limit(first)
        name  == non_empty(and_then(and_then(filter, "name"),
                                    "eq"), "")
        rows  == {t \in teams : IsSome(name) => t.name = Unwrap(name)}
    IN  Limit(order_by_name_asc(rows), limit)

get_team(id) == fetch_by_id(teams, id)

list_projects(filter, first) ==
    LET limit == clamp_limit(first)
        name  == non_empty(and_then(and_then(filter, "name"),
                                    "eq"), <<>>)
        rows  == {p \in projects : IsSome(name) => p.name = Unwrap(name)}
    IN  Limit(order_by_created_at_desc(rows), limit)

get_project(id) == fetch_by_id(projects, id)

\* The SELECT without its WHERE i.id = ?1: the first row of the table.
get_issue_unfiltered(id) ==
    IF issues = {} THEN None ELSE Some(CHOOSE i \in issues : TRUE)

get_issue(id) == fetch_by_id(issues, id)

\* The clause left out: every row passes.
archived_or_not(i) == TRUE

\* i.archived = 0
archived_is_0(i) == ~i.archived

\* _order_by is not read.
list_issues(filter, first, order_by) ==
    LET limit == clamp_limit(first)
        team == and_then(filter, "team")
        team_id == and_then(and_then(team, "id"), "eq")
        team_key == and_then(and_then(team, "key"), "eq")
        project_id == and_then(and_then(and_then(filter, "project"),
                                        "id"), "eq")
        state_name == and_then(and_then(filter, "state"),
                               "name")
        state_name_eq == and_then(state_name, "eq")
        state_name_neq == and_then(state_name, "neq")
        numbers == non_empty(and_then(and_then(filter, "number"),
                                      "in_values"), <<>>)
        rows ==
            {i \in issues :
                LET t  == joined(teams, Some(i.team_id))
                    ws == joined(workflow_states, Some(i.state_id))
                IN  /\ archived_is_0(i)
                    /\ IsSome(team_id) => i.team_id = Unwrap(team_id)
                    /\ IsSome(team_key) =>
                           IsSome(t) /\ Unwrap(t).key = Unwrap(team_key)
                    /\ IsSome(project_id) => i.project_id = project_id
                    /\ IsSome(state_name_eq) =>
                           IsSome(ws) /\ Unwrap(ws).name = Unwrap(state_name_eq)
                    /\ IsSome(state_name_neq) =>
                           IsSome(ws) /\ Unwrap(ws).name # Unwrap(state_name_neq)
                    /\ IsSome(numbers) =>
                           \E k \in DOMAIN Unwrap(numbers) :
                               i.number = f64_as_i64(Unwrap(numbers)[k])}
    IN  Limit(order_by_updated_at_desc(rows), limit)

list_workflow_states(filter) ==
    LET team_id == and_then(and_then(and_then(filter, "team"),
                                     "id"), "eq")
        rows == {w \in workflow_states :
                    IsSome(team_id) => w.team_id = Unwrap(team_id)}
    IN  order_by_position_asc(rows)

\* Project::issues of the project object with this id.
project_issues(id, first) ==
    LET limit == clamp_limit(first)
        rows == {i \in issues : archived_is_0(i) /\ i.project_id = Some(id)}
    IN  Limit(order_by_updated_at_desc(rows), limit)

\* Viewer::teams of the viewer object with this id.
viewer_teams(id, first) ==
    LET limit == clamp_limit(first)
        rows == {t \in teams :
                    \E tm \in team_members : tm.team_id = t.id /\ tm.user_id = id}
    IN  Limit(order_by_name_asc(rows), limit)

\* Team::states of the team object with this id.
team_states(id) ==
    order_by_position_asc({w \in workflow_states : w.team_id = id})

----------------------------------------------------------------------------
(* Inputs of the requests. *)

StringFilter(eq, neq) == [eq |-> eq, neq |-> neq]

IdFilter(eq) == [eq |-> eq]

FloatFilter(in_values) == [in_values |-> in_values]

TeamFilter(id, key, name) == [id |-> id, key |-> key, name |-> name]

ProjectFilter(id, name) == [id |-> id, name |-> name]

StateFilter(name) == [name |-> name]

IssuesFilter(team, project, state, number) ==
    [team |-> team, project |-> project, state |-> state, number |-> number]

TeamsFilter(name) == [name |-> name]

ProjectsFilter(name) == [name |-> name]

WorkflowStatesFilter(team) == [team |-> team]

AbsentTeam == "team_absent"

AbsentIssue == "issue_absent"

AbsentProject == "project_absent"

AbsentState == "state_absent"

\* Project names: the two have the same slug.
NameAB == <<"A", " ", "b">>

NameAb == <<"a", "-", "-", "B", "!">>

ProjectNames == {NameAB, NameAb}

TeamIdFilter(id) == Some(TeamFilter(Some(IdFilter(Some(id))), None, None))

FirstInputs == {None, Some(1)}

\* enum IssueOrderBy
OrderByInputs == {None, Some("updatedAt")}

TeamsFilterInputs ==
    {None, Some(TeamsFilter(Some(StringFilter(Some("Nobody"), None))))}

ProjectsFilterInputs ==
    {None, Some(ProjectsFilter(Some(StringFilter(Some(NameAB), None))))}

IssuesFilterInputs ==
    {None,
     Some(IssuesFilter(TeamIdFilter(AbsentTeam), None, None, None)),
     Some(IssuesFilter(None, None,
                       Some(StateFilter(Some(StringFilter(Some("Backlog"), None)))),
                       None)),
     Some(IssuesFilter(None, None, None, Some(FloatFilter(Some(<<10>>)))))}

WorkflowStatesFilterInputs ==
    {None, Some(WorkflowStatesFilter(TeamIdFilter(AbsentTeam)))}

IdsOf(table) == {r.id : r \in table}

\* The workflow states issueUpdate is given: one of the store, one of none.
StateIdInputs ==
    {w.id : w \in {v \in workflow_states : v.name = "Done"}} \cup {AbsentState}

IssueUpdateInput(title, description, state_id) ==
    [title |-> title, description |-> description, state_id |-> state_id]

IssueUpdateInputs ==
    {IssueUpdateInput(Some("Renamed"), Some("why"), None)}
      \cup {IssueUpdateInput(None, None, Some(s)) : s \in StateIdInputs}

IssueCreateInput(team_id, project_id, title, description) ==
    [team_id |-> team_id, project_id |-> project_id, title |-> title,
     description |-> description]

IssueCreateInputs ==
    {IssueCreateInput(t, p, "Fix bug", None) :
        t \in {TeamId, AbsentTeam},
        p \in {None, Some(AbsentProject)} \cup {Some(i) : i \in IdsOf(projects)}}

ProjectCreateInput(team_ids, name) == [team_ids |-> team_ids, name |-> name]

ProjectCreateInputs ==
    {ProjectCreateInput(t, n) :
        t \in {<<>>, <<TeamId>>, <<TeamId, AbsentTeam>>}, n \in ProjectNames}

CommentCreateInput(issue_id, body) == [issue_id |-> issue_id, body |-> body]

IssueIdInputs == IdsOf(issues) \cup {AbsentIssue}

ProjectIdInputs == IdsOf(projects) \cup {AbsentProject}

LabelIdInputs == {"bug"}

CommentCreateInputs == {CommentCreateInput(i, "LGTM") : i \in IssueIdInputs}

AdminImportProjectInput(id, name, slug_id, state, archived_at, url) ==
    [id |-> id, name |-> name, slug_id |-> slug_id, state |-> state,
     archived_at |-> archived_at, url |-> url]

ImportedId == "project_ext"

AdminImportProjectInputs ==
    {AdminImportProjectInput(i, NameAB, s, Some("started"), None, "http://ext/p") :
        i \in {ImportedId} \cup IdsOf(projects), s \in {slugify(NameAB)}}

----------------------------------------------------------------------------
(* Responses. *)

Resp(op, status, touched, success, id, nodes) ==
    [op |-> op, status |-> status, touched |-> touched, success |-> success,
     id |-> id, nodes |-> nodes]

\* Err(Error::new("Unauthorized")): nothing was executed on the connection.
Unauthorized(op) == Resp(op, "Unauthorized", FALSE, FALSE, "", <<>>)

\* An error before any statement was executed on the connection.
Invalid(op, message) == Resp(op, message, FALSE, FALSE, "", <<>>)

\* An error after statements were executed on the connection.
Failed(op, message) == Resp(op, message, TRUE, FALSE, "", <<>>)

Nodes(op, nodes) == Resp(op, "ok", TRUE, TRUE, "", nodes)

Entity(op, id) == Resp(op, "ok", TRUE, TRUE, id, <<>>)

Payload(op, success, id) == Resp(op, "ok", TRUE, success, id, <<>>)

AllIdle == procs = EmptyBag

\* The server takes a request that runs more than one statement.
HasFreeSlot == BagCardinality(procs) < MaxProcs

InFlight == BagToSet(procs)

Enter(p) == procs (+) SetToBag({p})

Finish(p) == procs (-) SetToBag({p})

Advance(p, q) == (procs (-) SetToBag({p})) (+) SetToBag({q})

----------------------------------------------------------------------------
(* Queries: each resolver is ensure_auth, then one read of the store.  The *)
(* arguments of a request are chosen inside the resolver.                  *)

Respond(response) ==
    /\ last' = response
    /\ UNCHANGED <<store, clock, nextId, cfg, procs>>

\* ensure_auth(ctx)?; then the read whose responses are given.
Read(op, authorized, responses) ==
    IF ~ensure_auth(authorized) THEN Respond(Unauthorized(op))
    ELSE \E r \in responses : Respond(r)

QueryRoot_viewer(authorized) ==
    Read("viewer", authorized,
         {IF IsSome(get_viewer) THEN Entity("viewer", Unwrap(get_viewer).id)
          ELSE Failed("viewer", "no viewer configured")})

QueryRoot_teams(authorized) ==
    Read("teams", authorized,
         {Nodes("teams", Ids(list_teams(f, n))) :
             f \in TeamsFilterInputs, n \in FirstInputs})

\* Ok(None) when no row matches.
QueryRoot_team(authorized) ==
    Read("team", authorized,
         {IF IsSome(get_team(id)) THEN Entity("team", id)
          ELSE Payload("team", TRUE, "") : id \in {TeamId, AbsentTeam}})

QueryRoot_projects(authorized) ==
    Read("projects", authorized,
         {Nodes("projects", Ids(list_projects(f, n))) :
             f \in ProjectsFilterInputs, n \in FirstInputs})

QueryRoot_project(authorized) ==
    Read("project", authorized,
         {IF IsSome(get_project(id)) THEN Entity("project", id)
          ELSE Failed("project", "Entity not found: Project") :
             id \in ProjectIdInputs})

QueryRoot_issue(authorized) ==
    Read("issue", authorized,
         {IF IsSome(get_issue(id)) THEN Entity("issue", id)
          ELSE Failed("issue", "Entity not found: Issue") :
             id \in IssueIdInputs})

QueryRoot_issues(authorized) ==
    Read("issues", authorized,
         {Nodes("issues", Ids(list_issues(f, n, o))) :
             f \in IssuesFilterInputs, n \in FirstInputs, o \in OrderByInputs})

QueryRoot_workflow_states(authorized) ==
    Read("workflowStates", authorized,
         {Nodes("workflowStates", Ids(list_workflow_states(f))) :
             f \in WorkflowStatesFilterInputs})

\* The viewer object is the one QueryRoot_viewer returns.
Viewer_teams(authorized) ==
    Read("viewer.teams", authorized,
         {Nodes("viewer.teams", Ids(viewer_teams(ViewerId, n))) :
             n \in FirstInputs})

\* The team object is one a query returned.
Team_states(authorized) ==
    Read("team.states", authorized,
         {Nodes("team.states", Ids(team_states(id))) : id \in IdsOf(teams)})

\* The project object is one a query returned.
Project_issues(authorized) ==
    /\ projects # {}
    /\ Read("project.issues", authorized,
            {Nodes("project.issues", Ids(project_issues(id, n))) :
                id \in IdsOf(projects), n \in FirstInputs})

----------------------------------------------------------------------------
(* issueCreate: create_issue.  The reads of teams, projects and            *)
(* workflow_states are one step, the read of MAX(number) the next, the     *)
(* INSERT (with get_issue for the payload) the last.                       *)

\* The read of MAX(number) answered as on a team without issues.
max_number_of_none(team_id) == 0

\* SELECT COALESCE(MAX(number), 0) FROM issues WHERE team_id = ?1
max_number(team_id) ==
    LET ns == {i.number : i \in {j \in issues : j.team_id = team_id}}
    IN  IF ns = {} THEN 0 ELSE CHOOSE n \in ns : \A m \in ns : m <= n

\* The same read under ORDER BY position DESC.
first_state_desc(team_id) ==
    LET rows == order_by_position_asc({w \in workflow_states : w.team_id = team_id})
    IN  IF rows = <<>> THEN None ELSE Some(rows[Len(rows)])

\* ... FROM workflow_states WHERE team_id = ?1 ORDER BY position ASC LIMIT 1
first_state(team_id) ==
    LET rows == order_by_position_asc({w \in workflow_states : w.team_id = team_id})
    IN  IF rows = <<>> THEN None ELSE Some(rows[1])

\* The issues table with neither PRIMARY KEY nor UNIQUE.
issues_unconstrained(row) == TRUE

\* issues: id TEXT PRIMARY KEY, identifier TEXT NOT NULL UNIQUE
issues_constraints(row) ==
    \A i \in issues : i.id # row.id /\ i.identifier # row.identifier

\* The identifier formatted without the hyphen.
issue_identifier_unhyphenated(key, number) == key \o ToString(number)

\* format!("{}-{next_number}", team.key)
issue_identifier(key, number) == key \o "-" \o ToString(number)

create_issue(input) ==
    LET team  == fetch_by_id(teams, input.team_id)
        state == first_state(input.team_id)
    IN  IF ~IsSome(team)
        THEN Respond(Failed("issueCreate", "team not found"))
        ELSE IF IsSome(input.project_id)
                /\ count_by_id(projects, Unwrap(input.project_id)) = 0
        THEN Respond(Failed("issueCreate", "project not found"))
        ELSE IF ~IsSome(state)
        THEN Respond(Failed("issueCreate", "team has no workflow states"))
        ELSE /\ HasFreeSlot
             /\ clock < MaxClock
             /\ procs' = Enter([op |-> "issueCreate", pc |-> "number",
                                input |-> input, team |-> Unwrap(team),
                                state_id |-> Unwrap(state).id])
             /\ UNCHANGED <<store, clock, nextId, cfg, last>>

MutationRoot_issue_create(authorized) ==
    IF ~ensure_auth(authorized) THEN Respond(Unauthorized("issueCreate"))
    ELSE \E input \in IssueCreateInputs : create_issue(input)

\* The row create_issue inserts, from the number, token and time it read.
issue_row(p, next_number, token, now) ==
    LET identifier == issue_identifier(p.team.key, next_number)
    IN  [id |-> "issue_" \o short_id(token),
         team_id |-> p.team.id,
         project_id |-> p.input.project_id,
         number |-> next_number,
         identifier |-> identifier,
         title |-> p.input.title,
         description |-> p.input.description,
         state_id |-> p.state_id,
         assignee_id |-> None,
         archived |-> FALSE,
         url |-> as_str(trim_trailing_slash(BaseUrl)) \o "/issue/" \o identifier,
         created_at |-> now,
         updated_at |-> now]

create_issue_number(p) ==
    /\ p.op = "issueCreate"
    /\ p.pc = "number"
    /\ clock < MaxClock
    /\ procs' = Advance(p, [op |-> "issueCreate", pc |-> "insert",
                            row |-> issue_row(p, max_number(p.team.id) + 1,
                                              nextId, clock)])
    /\ nextId' = nextId + 1
    /\ clock' = clock + 1
    /\ UNCHANGED <<store, cfg, last>>

create_issue_insert(p) ==
    /\ p.op = "issueCreate"
    /\ p.pc = "insert"
    /\ IF issues_constraints(p.row)
       THEN /\ issues' = issues \cup {p.row}
            /\ last' = Entity("issueCreate", p.row.id)
       ELSE /\ issues' = issues
            /\ last' = Failed("issueCreate", "UNIQUE constraint failed")
    /\ procs' = Finish(p)
    /\ UNCHANGED <<users, teams, team_members, workflow_states, projects,
                   project_teams, labels, issue_labels, comments,
                   clock, nextId, cfg>>

----------------------------------------------------------------------------
(* projectCreate: create_project.  The validation, the probes of           *)
(* next_project_slug and the clock read are one step; the INSERT into      *)
(* projects and the INSERT OR IGNOREs into project_teams (a table no       *)
(* handler reads) the next.                                                *)

\* The loop left at its first candidate, probed or not.
slug_probe_once(base, candidate, i) == candidate

\* The loop of next_project_slug, from candidate and i on.
RECURSIVE slug_probe(_, _, _)
slug_probe(base, candidate, i) ==
    IF Cardinality({r \in projects : r.slug_id = candidate}) = 0
    THEN candidate
    ELSE slug_probe(base, base \o <<"-">> \o DecimalChars(i), i + 1)

next_project_slug(project_name) ==
    LET base == slugify(project_name) IN slug_probe(base, base, 2)

\* The projects table with neither PRIMARY KEY nor UNIQUE.
projects_unconstrained(row) == TRUE

\* projects: id TEXT PRIMARY KEY, slug_id TEXT NOT NULL UNIQUE
projects_constraints(row) ==
    \A r \in projects : r.id # row.id /\ r.slug_id # row.slug_id

project_row(input, token, now) ==
    LET project_id == "project_" \o short_id(token)
    IN  [id |-> project_id,
         name |-> input.name,
         slug_id |-> next_project_slug(input.name),
         state |-> Some("planned"),
         archived_at |-> None,
         url |-> as_str(trim_trailing_slash(BaseUrl)) \o "/project/" \o project_id,
         created_at |-> now]

create_project(input) ==
    IF input.team_ids = <<>>
    THEN Respond(Invalid("projectCreate",
                         "teamIds must contain at least one team id"))
    ELSE IF \E k \in DOMAIN input.team_ids :
                count_by_id(teams, input.team_ids[k]) = 0
    THEN Respond(Failed("projectCreate", "team not found"))
    ELSE /\ HasFreeSlot
         /\ clock < MaxClock
         /\ procs' = Enter([op |-> "projectCreate", pc |-> "insert",
                            input |-> input,
                            row |-> project_row(input, nextId, clock)])
         /\ nextId' = nextId + 1
         /\ clock' = clock + 1
         /\ UNCHANGED <<store, cfg, last>>

MutationRoot_project_create(authorized) ==
    IF ~ensure_auth(authorized) THEN Respond(Unauthorized("projectCreate"))
    ELSE \E input \in ProjectCreateInputs : create_project(input)

create_project_insert(p) ==
    /\ p.op = "projectCreate"
    /\ p.pc = "insert"
    /\ IF projects_constraints(p.row)
       THEN /\ projects' = projects \cup {p.row}
            /\ project_teams' = project_teams \cup
                   {[project_id |-> p.row.id, team_id |-> p.input.team_ids[k]] :
                       k \in DOMAIN p.input.team_ids}
            /\ last' = Entity("projectCreate", p.row.id)
       ELSE /\ UNCHANGED <<projects, project_teams>>
            /\ last' = Failed("projectCreate", "UNIQUE constraint failed")
    /\ procs' = Finish(p)
    /\ UNCHANGED <<users, teams, team_members, workflow_states, issues, labels,
                   issue_labels, comments, clock, nextId, cfg>>

----------------------------------------------------------------------------
(* adminImportProject: import_project_1to1.  The DELETE is one step, the   *)
(* INSERT .. ON CONFLICT(id) DO UPDATE (with get_project) the next.        *)

import_project_1to1(input) ==
    /\ HasFreeSlot
    /\ projects' = {r \in projects :
                       ~(r.slug_id = input.slug_id /\ r.id # input.id)}
    /\ procs' = Enter([op |-> "adminImportProject", pc |-> "upsert",
                       input |-> input])
    /\ UNCHANGED <<users, teams, team_members, workflow_states,
                   project_teams, issues, labels, issue_labels, comments,
                   clock, nextId, cfg, last>>

MutationRoot_admin_import_project(authorized) ==
    IF ~ensure_auth(authorized) THEN Respond(Unauthorized("adminImportProject"))
    ELSE \E input \in AdminImportProjectInputs : import_project_1to1(input)

\* The row an INSERT .. ON CONFLICT(id) DO NOTHING would leave.
imported_row_kept(input, old, now) ==
    IF IsSome(old) THEN Unwrap(old)
    ELSE [id |-> input.id, name |-> input.name, slug_id |-> input.slug_id,
          state |-> input.state, archived_at |-> input.archived_at,
          url |-> input.url, created_at |-> now]

\* The row the upsert leaves: created_at is not in the DO UPDATE SET list.
imported_row(input, old, now) ==
    [id |-> input.id, name |-> input.name, slug_id |-> input.slug_id,
     state |-> input.state, archived_at |-> input.archived_at,
     url |-> input.url,
     created_at |-> IF IsSome(old) THEN Unwrap(old).created_at ELSE now]

import_project_upsert(p) ==
    /\ p.op = "adminImportProject"
    /\ p.pc = "upsert"
    /\ LET old    == fetch_by_id(projects, p.input.id)
           others == {r \in projects : r.id # p.input.id}
       IN  IF \E r \in others : r.slug_id = p.input.slug_id
           THEN /\ UNCHANGED <<projects, clock>>
                /\ last' = Failed("adminImportProject", "UNIQUE constraint failed")
           ELSE /\ IsSome(old) \/ clock < MaxClock
                /\ projects' = others \cup {imported_row(p.input, old, clock)}
                /\ clock' = IF IsSome(old) THEN clock ELSE clock + 1
                /\ last' = Entity("adminImportProject", p.input.id)
    /\ procs' = Finish(p)
    /\ UNCHANGED <<users, teams, team_members, workflow_states, project_teams,
                   issues, labels, issue_labels, comments, nextId, cfg>>

----------------------------------------------------------------------------
(* The mutations of one write statement. *)

\* UPDATE issues SET <sets>, updated_at = ? WHERE id = ?
update_issue_row(i, input, now) ==
    [i EXCEPT !.title = IF IsSome(input.title) THEN Unwrap(input.title) ELSE @,
              !.description = IF IsSome(input.description) THEN input.description
                              ELSE @,
              !.state_id = IF IsSome(input.state_id) THEN Unwrap(input.state_id)
                           ELSE @,
              !.updated_at = now]

\* The statement reported as changing a row whatever the table holds.
changed_always(table, id) == 1

\* The rows a statement with WHERE id = ? changes.
changed(table, id) == Cardinality({r \in table : r.id = id})

update_issue(issue_id, input) ==
    IF changed(issues, issue_id) = 0
    THEN Respond(Failed("issueUpdate", "issue not found"))
    ELSE /\ clock < MaxClock
         /\ issues' = {IF i.id = issue_id THEN update_issue_row(i, input, clock)
                       ELSE i : i \in issues}
         /\ clock' = clock + 1
         /\ last' = Entity("issueUpdate", issue_id)
         /\ UNCHANGED <<users, teams, team_members, workflow_states, projects,
                        project_teams, labels, issue_labels, comments,
                        nextId, cfg, procs>>

MutationRoot_issue_update(authorized) ==
    IF ~ensure_auth(authorized) THEN Respond(Unauthorized("issueUpdate"))
    ELSE \E id \in IssueIdInputs, input \in IssueUpdateInputs :
             update_issue(id, input)

\* The UPDATE without archived = 1 in its SET list.
archive_issue_row_unflagged(i, now) == [i EXCEPT !.updated_at = now]

\* UPDATE issues SET archived = 1, updated_at = ?1 WHERE id = ?2
archive_issue_row(i, now) == [i EXCEPT !.archived = TRUE, !.updated_at = now]

\* The clock advances when a row takes the value read from it.
archive_issue(issue_id) ==
    LET n == changed(issues, issue_id)
    IN  /\ n > 0 => clock < MaxClock
        /\ issues' = {IF i.id = issue_id THEN archive_issue_row(i, clock)
                      ELSE i : i \in issues}
        /\ clock' = IF n > 0 THEN clock + 1 ELSE clock
        /\ last' = Payload("issueArchive", n > 0, issue_id)
        /\ UNCHANGED <<users, teams, team_members, workflow_states, projects,
                       project_teams, labels, issue_labels, comments,
                       nextId, cfg, procs>>

MutationRoot_issue_archive(authorized) ==
    IF ~ensure_auth(authorized) THEN Respond(Unauthorized("issueArchive"))
    ELSE \E id \in IssueIdInputs : archive_issue(id)

add_label(issue_id, label_id) ==
    IF count_by_id(issues, issue_id) = 0
    THEN Respond(Payload("issueAddLabel", FALSE, issue_id))
    ELSE /\ labels' = IF count_by_id(labels, label_id) = 0
                      THEN labels \cup {[id |-> label_id, name |-> label_id]}
                      ELSE labels
         /\ issue_labels' = issue_labels \cup
                                {[issue_id |-> issue_id, label_id |-> label_id]}
         /\ last' = Payload("issueAddLabel", TRUE, issue_id)
         /\ UNCHANGED <<users, teams, team_members, workflow_states, projects,
                        project_teams, issues, comments, clock, nextId, cfg, procs>>

MutationRoot_issue_add_label(authorized) ==
    IF ~ensure_auth(authorized) THEN Respond(Unauthorized("issueAddLabel"))
    ELSE \E id \in IssueIdInputs, l \in LabelIdInputs : add_label(id, l)

create_comment(input) ==
    IF count_by_id(issues, input.issue_id) = 0
    THEN Respond(Failed("commentCreate", "issue not found"))
    ELSE /\ clock < MaxClock
         /\ LET comment_id == "comment_" \o short_id(nextId)
            IN  /\ comments' = comments \cup
                       {[id |-> comment_id, issue_id |-> input.issue_id,
                         body |-> input.body,
                         url |-> as_str(trim_trailing_slash(BaseUrl)) \o "/comment/"
                                     \o comment_id,
                         created_at |-> clock]}
                /\ last' = Entity("commentCreate", comment_id)
         /\ nextId' = nextId + 1
         /\ clock' = clock + 1
         /\ UNCHANGED <<users, teams, team_members, workflow_states, projects,
                        project_teams, issues, labels, issue_labels, cfg, procs>>

MutationRoot_comment_create(authorized) ==
    IF ~ensure_auth(authorized) THEN Respond(Unauthorized("commentCreate"))
    ELSE \E input \in CommentCreateInputs : create_comment(input)

----------------------------------------------------------------------------
(* A restart of the server between requests: run_from_env runs migrate and *)
(* seed_defaults again on the store as it is.  The clock advances when a   *)
(* row takes its value.                                                    *)

run_from_env ==
    /\ AllIdle
    /\ users' = seed_users(users, clock)
    /\ teams' = seed_teams(teams, clock)
    /\ team_members' = seed_team_members(team_members)
    /\ workflow_states' = seed_workflow_states(workflow_states, nextId).ws
    /\ nextId' = seed_workflow_states(workflow_states, nextId).next
    /\ clock' = IF users = {} \/ teams = {} THEN clock + 1 ELSE clock
    /\ last' = Resp("run_from_env", "ok", TRUE, TRUE, "", <<>>)
    /\ UNCHANGED <<projects, project_teams, issues, labels, issue_labels,
                   comments, cfg, procs>>

----------------------------------------------------------------------------
(* The specification: requests arrive with any Authorization header and    *)
(* their statements interleave.                                            *)

\* The requests the server accepts now: with any Authorization header, and
\* under single-writer execution only while no request is in flight.
Arrivals(serial) == IF serial /\ ~AllIdle THEN {} ELSE RequestAuths

\* graphql_handler: is_authorized, then the resolver of the request.
graphql_handler(serial) ==
    \/ \E authorized \in Arrivals(serial) : QueryRoot_viewer(authorized)
    \/ \E authorized \in Arrivals(serial) : QueryRoot_teams(authorized)
    \/ \E authorized \in Arrivals(serial) : QueryRoot_team(authorized)
    \/ \E authorized \in Arrivals(serial) : QueryRoot_projects(authorized)
    \/ \E authorized \in Arrivals(serial) : QueryRoot_project(authorized)
    \/ \E authorized \in Arrivals(serial) : QueryRoot_issue(authorized)
    \/ \E authorized \in Arrivals(serial) : QueryRoot_issues(authorized)
    \/ \E authorized \in Arrivals(serial) : QueryRoot_workflow_states(authorized)
    \/ \E authorized \in Arrivals(serial) : Viewer_teams(authorized)
    \/ \E authorized \in Arrivals(serial) : Team_states(authorized)
    \/ \E authorized \in Arrivals(serial) : Project_issues(authorized)
    \/ \E authorized \in Arrivals(serial) : MutationRoot_project_create(authorized)
    \/ \E authorized \in Arrivals(serial) : MutationRoot_issue_create(authorized)
    \/ \E authorized \in Arrivals(serial) : MutationRoot_comment_create(authorized)
    \/ \E authorized \in Arrivals(serial) : MutationRoot_issue_update(authorized)
    \/ \E authorized \in Arrivals(serial) : MutationRoot_issue_archive(authorized)
    \/ \E authorized \in Arrivals(serial) : MutationRoot_issue_add_label(authorized)
    \/ \E authorized \in Arrivals(serial) : MutationRoot_admin_import_project(authorized)

\* The next statement of a request in flight.
Continue ==
    \/ \E p \in InFlight : create_issue_number(p)
    \/ \E p \in InFlight : create_issue_insert(p)
    \/ \E p \in InFlight : create_project_insert(p)
    \/ \E p \in InFlight : import_project_upsert(p)

Next == graphql_handler(FALSE) \/ Continue \/ run_from_env

Spec == Init /\ [][Next]_vars

\* Single-writer execution: a request starts when none is in flight.
SeqNext == graphql_handler(TRUE) \/ Continue \/ run_from_env

SeqSpec == Init /\ [][SeqNext]_vars

----------------------------------------------------------------------------
(* The authorization decision on its own: the server started under any     *)
(* configuration, a request arriving with any Authorization header.        *)

AuthInit == \E c \in Configs : Start(c)

\* graphql_handler up to RequestAuth { authorized }, and what ensure_auth
\* makes of it.
RequestAuth(h) ==
    /\ last' = [op |-> "is_authorized", header |-> h,
                authorized |-> is_authorized(h, cfg),
                admitted |-> ensure_auth(is_authorized(h, cfg))]
    /\ UNCHANGED <<store, clock, nextId, cfg, procs>>

AuthNext == \E h \in Headers : RequestAuth(h)

AuthSpec == AuthInit /\ [][AuthNext]_vars

----------------------------------------------------------------------------
(* The record limit on its own: a listing asked with any first argument.   *)

\* The values of first: Option<i32> a request carries, the range around
\* the limits, 10000 and the ends of i32.
MaxFirst == 560

FirstValues ==
    {None} \cup {Some(n) : n \in (-MaxFirst)..MaxFirst}
           \cup {Some(10000), Some((2^30 - 1) + 2^30), Some(-(2^30) - 2^30)}

\* teams(first: ..): clamp_limit(first), then the listing under that limit.
ListWithFirst(first) ==
    /\ last' = [op |-> "clamp_limit", first |-> first,
                limit |-> clamp_limit(first),
                nodes |-> Ids(list_teams(None, first))]
    /\ UNCHANGED <<store, clock, nextId, cfg, procs>>

LimitNext == \E first \in FirstValues : ListWithFirst(first)

LimitSpec == Init /\ [][LimitNext]_vars

----------------------------------------------------------------------------
(* The loop of next_project_slug on its own, one probe a step, over a      *)
(* store that no other request writes: any name, any set of stored slugs.  *)

\* The suffixes of the slugs the store may hold.
MaxStored == 4

\* The probes a call is followed for.
MaxProbes == MaxStored + 3

\* A name without a letter or digit: its slug is "project".
NameBang == <<"!">>

ProbeNames == ProjectNames \cup {NameBang}

StoredSlugs ==
    {slugify(NameBang), slugify(NameAB)}
        \cup {slugify(NameAB) \o <<"-">> \o DecimalChars(k) : k \in 2..MaxStored}

\* A project that holds the slug, as adminImportProject stores it.
StoredProject(slug) ==
    imported_row(AdminImportProjectInput("project_" \o as_str(slug), slug, slug,
                                         None, None, "http://ext/p"),
                 None, 0)

\* let base = slugify(project_name); let mut candidate = base.clone();
\* let mut i = 2;
ProbeInit ==
    \E name \in ProbeNames : \E slugs \in SUBSET StoredSlugs :
        /\ users = seed_users({}, 0)
        /\ teams = seed_teams({}, 0)
        /\ team_members = seed_team_members({})
        /\ workflow_states = seed_workflow_states({}, 1).ws
        /\ nextId = seed_workflow_states({}, 1).next
        /\ projects = {StoredProject(slug) : slug \in slugs}
        /\ project_teams = {}
        /\ issues = {}
        /\ labels = {}
        /\ issue_labels = {}
        /\ comments = {}
        /\ clock = 1
        /\ cfg = DefaultConfig
        /\ procs = SetToBag({[op |-> "next_project_slug", pc |-> "probe",
                              name |-> name, base |-> slugify(name),
                              candidate |-> slugify(name), i |-> 2]})
        /\ last = NoResponse

\* The candidate left as the first suffixed one.
format_candidate_2(base, i) == base \o <<"-", "2">>

\* format!("{base}-{i}")
format_candidate(base, i) == base \o <<"-">> \o DecimalChars(i)

\* if exists == 0 { return Ok(candidate); }
probe_free(p) ==
    /\ p.op = "next_project_slug"
    /\ Cardinality({r \in projects : r.slug_id = p.candidate}) = 0
    /\ procs' = Finish(p)
    /\ last' = [op |-> "next_project_slug", status |-> "ok", name |-> p.name,
                slug |-> p.candidate, probes |-> p.i - 1]
    /\ UNCHANGED <<store, clock, nextId, cfg>>

\* candidate = format!("{base}-{i}"); i += 1;
probe_taken(p) ==
    /\ p.op = "next_project_slug"
    /\ Cardinality({r \in projects : r.slug_id = p.candidate}) # 0
    /\ p.i < MaxProbes
    /\ procs' = Advance(p, [p EXCEPT !.candidate = format_candidate(p.base, p.i),
                                     !.i = p.i + 1])
    /\ UNCHANGED <<store, clock, nextId, cfg, last>>

ProbeNext ==
    \/ \E p \in InFlight : probe_free(p)
    \/ \E p \in InFlight : probe_taken(p)

\* The runtime polls the future of the request whenever it can proceed.
ProbeSpec == ProbeInit /\ [][ProbeNext]_vars /\ WF_vars(ProbeNext)

----------------------------------------------------------------------------
(* Properties. *)

\* The listings of issues a client can ask for.
IssueListings ==
    {list_issues(f, first, o) :
        f \in IssuesFilterInputs, first \in FirstInputs, o \in OrderByInputs}
      \cup {project_issues(id, first) : id \in IdsOf(projects), first \in FirstInputs}

NoDuplicateNumbers ==
    \A a, b \in issues :
        (a.team_id = b.team_id /\ a.number = b.number) => a = b

RejectedInsertWritesNoRow ==
    \A p \in InFlight :
        (create_issue_insert(p) /\ \E i \in issues : i.identifier = p.row.identifier)
            => /\ issues' = issues
               /\ last'.status = "UNIQUE constraint failed"

\* C1: no two issues of a team ever share a number, however the statements
\* of issueCreate requests interleave; an INSERT whose identifier is taken
\* is rejected by the UNIQUE constraint and leaves the issues table as it was.
C1_NumbersNeverRepeat ==
    []NoDuplicateNumbers /\ [][RejectedInsertWritesNoRow]_vars

\* Two issueCreate requests read the same MAX(number); the second INSERT
\* was rejected.
C1_Witness ==
    /\ last.op = "issueCreate"
    /\ last.status = "UNIQUE constraint failed"
    /\ \E i \in issues : i.number = 1

IssuesOf(team_id) == {i \in issues : i.team_id = team_id}

NumbersAreDense ==
    \A t \in teams :
        /\ {i.number : i \in IssuesOf(t.id)} = 1..Cardinality(IssuesOf(t.id))
        /\ \A a, b \in IssuesOf(t.id) :
               a.created_at < b.created_at => a.number < b.number

InsertTakesNextNumber ==
    \A p \in InFlight :
        create_issue_insert(p) =>
            \E r \in issues' :
                /\ r \notin issues
                /\ issues' = issues \cup {r}
                /\ last' = Entity("issueCreate", r.id)
                /\ \A i \in IssuesOf(r.team_id) : i.number < r.number
                /\ \/ r.number = 1
                   \/ \E i \in IssuesOf(r.team_id) : i.number + 1 = r.number

\* C2: issueCreate requests on a team executed one after another each
\* insert an issue whose number is one more than the greatest number of the
\* team, 1 when the team has none: the numbers are distinct and increase
\* with the order of creation.
C2_SequentialNumbers ==
    []NumbersAreDense /\ [][InsertTakesNextNumber]_vars

\* Two issues created one after the other.
C2_Witness ==
    /\ last.op = "issueCreate"
    /\ last.status = "ok"
    /\ \E a, b \in issues :
           /\ a.number = 1
           /\ b.number = 2
           /\ b.id = last.id
           /\ a.created_at < b.created_at

IdentifierIsKeyAndNumber ==
    \A i \in issues :
        /\ \E t \in teams :
               t.id = i.team_id /\ i.identifier = t.key \o "-" \o ToString(i.number)
        /\ i.number = 1 => i.identifier = "SYN-1"
        /\ i.number = 2 => i.identifier = "SYN-2"

IdentifiersAreUnique ==
    \A a, b \in issues : a.identifier = b.identifier => a = b

IdentityIsKept ==
    \A i \in issues :
        \E j \in issues' :
            /\ j.id = i.id
            /\ j.identifier = i.identifier
            /\ j.number = i.number
            /\ j.team_id = i.team_id

\* C3: the identifier of every issue is the key of its team, a hyphen and
\* its number (SYN-1, SYN-2 in the seeded team); no two issues share an
\* identifier; no step changes the identifier, number or team of an issue.
C3_IdentifierDerived ==
    [](IdentifierIsKeyAndNumber /\ IdentifiersAreUnique) /\ [][IdentityIsKept]_vars

\* SYN-1 after an issueUpdate that renamed it.
C3_Witness ==
    /\ last.op = "issueUpdate"
    /\ last.status = "ok"
    /\ \E i \in issues :
           /\ i.id = last.id
           /\ i.identifier = "SYN-1"
           /\ i.title = "Renamed"
           /\ i.created_at < i.updated_at

\* C4: the state_id of every issue is the id of a workflow state of the
\* issue's own team.
C4_StateOfOwnTeam ==
    \A i \in issues :
        \E w \in workflow_states : w.id = i.state_id /\ w.team_id = i.team_id

\* An issue as issueCreate left it, in the first state of its team.
C4_Witness ==
    /\ last.op = "issueCreate"
    /\ last.status = "ok"
    /\ \E i \in issues :
           /\ i.id = last.id
           /\ \E w \in workflow_states :
                  w.id = i.state_id /\ w.team_id = i.team_id /\ w.name = "Backlog"

\* Any resolver, run for a request whose RequestAuth is as given.
Resolver(authorized) ==
    \/ QueryRoot_viewer(authorized)
    \/ QueryRoot_teams(authorized)
    \/ QueryRoot_team(authorized)
    \/ QueryRoot_projects(authorized)
    \/ QueryRoot_project(authorized)
    \/ QueryRoot_issue(authorized)
    \/ QueryRoot_issues(authorized)
    \/ QueryRoot_workflow_states(authorized)
    \/ Viewer_teams(authorized)
    \/ Team_states(authorized)
    \/ Project_issues(authorized)
    \/ MutationRoot_project_create(authorized)
    \/ MutationRoot_issue_create(authorized)
    \/ MutationRoot_comment_create(authorized)
    \/ MutationRoot_issue_update(authorized)
    \/ MutationRoot_issue_archive(authorized)
    \/ MutationRoot_issue_add_label(authorized)
    \/ MutationRoot_admin_import_project(authorized)

UnauthorizedIsRejected ==
    (cfg.require_auth /\ Resolver(FALSE)) =>
        /\ last'.status = "Unauthorized"
        /\ ~last'.touched
        /\ UNCHANGED <<store, clock, nextId, procs>>

\* C5: with authorization required, every resolver run for a request that
\* is not authorized fails with "Unauthorized" before it reads or writes:
\* the store after the step is the store before it.
C5_GateFirst ==
    [](last.status = "Unauthorized" => ~last.touched)
        /\ [][UnauthorizedIsRejected]_vars

\* An issueArchive of an issue of the store was refused.
C5_Witness ==
    /\ last.op = "issueArchive"
    /\ last.status = "Unauthorized"
    /\ \E i \in issues : ~i.archived

Decided == last.op = "is_authorized"

\* The text has a character that is not whitespace.
HasVisible(v) == \E k \in 1..Len(v) : v[k] \notin Whitespace

\* m is v without its leading and its trailing whitespace.
IsStripped(v, m) ==
    \E i, j \in 0..Len(v) :
        /\ i + j <= Len(v)
        /\ m = SubSeq(v, i + 1, Len(v) - j)
        /\ \A k \in 1..i : v[k] \in Whitespace
        /\ \A k \in (Len(v) - j + 1)..Len(v) : v[k] \in Whitespace
        /\ m # <<>> => (m[1] \notin Whitespace /\ m[Len(m)] \notin Whitespace)
        /\ m = <<>> => i + j = Len(v)

\* C6, as amended: with authorization required and no key configured, a
\* request is authorized exactly when its Authorization header is a text
\* with a character that is not whitespace; a missing header, an unreadable
\* one, an empty one and one of whitespace only are refused.
C6_AnyVisibleCredential ==
    (Decided /\ cfg.require_auth /\ ~IsSome(cfg.api_key)) =>
        /\ last.authorized <=>
               (last.header.kind = "text" /\ HasVisible(last.header.value))
        /\ last.admitted <=> last.authorized

\* C6, as stated: with authorization required and no key configured, a
\* request is authorized exactly when its Authorization header is a
\* non-empty text.
C6_AnyNonEmptyCredential ==
    (Decided /\ cfg.require_auth /\ ~IsSome(cfg.api_key)) =>
        (last.authorized <=>
            (last.header.kind = "text" /\ last.header.value # <<>>))

\* A header of one space, refused.
C6_Witness ==
    /\ Decided
    /\ cfg.require_auth
    /\ ~IsSome(cfg.api_key)
    /\ last.header = TextHeader(<<" ">>)
    /\ ~last.authorized

\* C7, as amended: with authorization required and a key configured, a
\* request is authorized exactly when its Authorization header, without
\* leading and trailing whitespace, is the key or "Bearer " followed by the
\* key; with authorization not required every request is authorized.
C7_StrippedCredentialMatches ==
    Decided =>
        /\ (cfg.require_auth /\ IsSome(cfg.api_key)) =>
               (last.authorized <=>
                   /\ last.header.kind = "text"
                   /\ \E m \in {Unwrap(cfg.api_key), Bearer \o Unwrap(cfg.api_key)} :
                          IsStripped(last.header.value, m))
        /\ ~cfg.require_auth => (last.authorized /\ last.admitted)

\* C7, as stated: with authorization required and a key configured, a
\* request is authorized exactly when its Authorization header is the key
\* or "Bearer " followed by the key; with authorization not required every
\* request is authorized.
C7_VerbatimCredentialMatches ==
    Decided =>
        /\ (cfg.require_auth /\ IsSome(cfg.api_key)) =>
               (last.authorized <=>
                   /\ last.header.kind = "text"
                   /\ last.header.value \in
                          {Unwrap(cfg.api_key), Bearer \o Unwrap(cfg.api_key)})
        /\ ~cfg.require_auth => (last.authorized /\ last.admitted)

\* The key between a tab and a space, authorized.
C7_Witness ==
    /\ Decided
    /\ cfg.require_auth
    /\ cfg.api_key = Some(ApiKey)
    /\ last.header = TextHeader(<<"\t">> \o ApiKey \o <<" ">>)
    /\ last.authorized

\* Filters, limits and orderings beyond those the requests of the model
\* carry.
AnyStateFilter ==
    {None,
     Some(StateFilter(Some(StringFilter(Some("Backlog"), None)))),
     Some(StateFilter(Some(StringFilter(None, Some("Backlog")))))}

AnyTeamFilter ==
    {None, TeamIdFilter(TeamId),
     Some(TeamFilter(None, Some(StringFilter(Some(SeedTeamKey), None)), None))}

AnyProjectFilter ==
    {None} \cup {Some(ProjectFilter(Some(IdFilter(Some(id))), None)) :
                    id \in ProjectIdInputs}

AnyNumberFilter == {None, Some(FloatFilter(Some(<<10, 25>>)))}

AnyIssuesFilter ==
    {None} \cup {Some(IssuesFilter(t, p, s, n)) :
                    t \in AnyTeamFilter, p \in AnyProjectFilter,
                    s \in AnyStateFilter, n \in AnyNumberFilter}

AnyFirst == {None, Some(0), Some(2)}

AnyListing ==
    {list_issues(f, first, o) :
        f \in AnyIssuesFilter, first \in AnyFirst, o \in OrderByInputs}
      \cup {project_issues(id, first) : id \in ProjectIdInputs, first \in AnyFirst}

Listed(l) == {l[k] : k \in DOMAIN l}

ListingsHoldNoArchived == \A l \in AnyListing : \A i \in Listed(l) : ~i.archived

ResponsesHoldNoArchived ==
    (last.op \in {"issues", "project.issues"} /\ last.status = "ok") =>
        \A k \in DOMAIN last.nodes :
            \A i \in issues : i.id = last.nodes[k] => ~i.archived

ArchiveAnswers ==
    \A id \in IssueIdInputs :
        archive_issue(id) =>
            IF id \in IdsOf(issues)
            THEN /\ last'.status = "ok"
                 /\ last'.success
                 /\ \A i \in issues' : i.id = id => i.archived
                 /\ \A l \in IssueListings' : \A i \in Listed(l) : i.id # id
            ELSE /\ last'.status = "ok"
                 /\ ~last'.success
                 /\ UNCHANGED <<store, clock, nextId, procs>>

ArchivedAreUnlisted ==
    \A j \in issues :
        j.archived => \A l \in IssueListings : \A i \in Listed(l) : i.id # j.id

StaysArchived ==
    \A i \in issues : i.archived => \A j \in issues' : j.id = i.id => j.archived

Refused(op) ==
    /\ last'.op = op
    /\ last'.status \notin {"ok", "Unauthorized"}
    /\ ~last'.success
    /\ UNCHANGED <<store, clock, nextId, procs>>

HasNoStates(team_id) == \A w \in workflow_states : w.team_id # team_id

InvalidInputWritesNothing ==
    /\ \A input \in ProjectCreateInputs :
           (/\ create_project(input)
            /\ \/ input.team_ids = <<>>
               \/ \E k \in DOMAIN input.team_ids :
                      input.team_ids[k] \notin IdsOf(teams))
               => (Refused("projectCreate")
                     /\ Cardinality(projects') = Cardinality(projects))
    /\ \A input \in IssueCreateInputs :
           (/\ create_issue(input)
            /\ \/ input.team_id \notin IdsOf(teams)
               \/ /\ IsSome(input.project_id)
                  /\ Unwrap(input.project_id) \notin IdsOf(projects)
               \/ HasNoStates(input.team_id))
               => Refused("issueCreate")
    /\ \A input \in CommentCreateInputs :
           (create_comment(input) /\ input.issue_id \notin IdsOf(issues))
               => Refused("commentCreate")

\* C10: projectCreate with no team id or with the id of no team,
\* issueCreate with the id of no team, of no project, or of a team without
\* workflow states, and commentCreate with the id of no issue answer with
\* an error and leave every table as it was.
C10_InvalidInputWritesNothing == [][InvalidInputWritesNothing]_vars

\* projectCreate with teamIds = [] was refused while the store holds a
\* project.
C10_Witness ==
    /\ last.op = "projectCreate"
    /\ last.status = "teamIds must contain at least one team id"
    /\ projects # {}

\* The k-th candidate of the loop: the base, then base-2, base-3, ...
Candidate(base, k) ==
    IF k = 1 THEN base ELSE base \o <<"-">> \o DecimalChars(k)

SlugTaken(slug) == \E r \in projects : r.slug_id = slug

\* slug is the first candidate of base no persisted project has.
IsLowestFree(base, slug) ==
    \E k \in 1..(Cardinality(projects) + 1) :
        /\ slug = Candidate(base, k)
        /\ ~SlugTaken(slug)
        /\ \A j \in 1..(k - 1) : SlugTaken(Candidate(base, j))

SlugsAreDistinct ==
    \A a, b \in projects : a.slug_id = b.slug_id => a = b

ProbeReturnsLowestFree ==
    \A n \in ProjectNames :
        /\ IsLowestFree(slugify(n), next_project_slug(n))
        /\ ~SlugTaken(slugify(n)) => next_project_slug(n) = slugify(n)
        /\ SlugTaken(slugify(n)) =>
               \E k \in 2..(Cardinality(projects) + 1) :
                   next_project_slug(n) = Candidate(slugify(n), k)

InsertPersistsProbedSlug ==
    \A p \in InFlight :
        create_project_insert(p) =>
            /\ IsLowestFree(slugify(p.input.name), p.row.slug_id)
            /\ projects' = projects \cup {p.row}
            /\ last' = Entity("projectCreate", p.row.id)

\* C11: with one writer at a time, next_project_slug returns the base slug
\* of the name while no persisted project has it (again and again until a
\* row is persisted), and otherwise base-k for the least k >= 2 that is
\* free; every projectCreate INSERT persists the slug it probed, and the
\* slugs of the projects are pairwise distinct.
C11_SlugAllocation ==
    [](SlugsAreDistinct /\ ProbeReturnsLowestFree)
        /\ [][InsertPersistsProbedSlug]_vars

\* Two projects of one base slug created one after the other: the second
\* got the suffix 2.
C11_Witness ==
    /\ last.op = "projectCreate"
    /\ last.status = "ok"
    /\ \E a, b \in projects :
           /\ slugify(a.name) = slugify(b.name)
           /\ a.slug_id = slugify(a.name)
           /\ b.slug_id = slugify(a.name) \o <<"-", "2">>
           /\ b.id = last.id

RejectedProjectInsertWritesNoRow ==
    \A p \in InFlight :
        (create_project_insert(p) /\ SlugTaken(p.row.slug_id)) =>
            /\ projects' = projects
            /\ project_teams' = project_teams
            /\ \A r \in projects' : r.id # p.row.id
            /\ \A r \in project_teams' : r.project_id # p.row.id
            /\ last' = Failed("projectCreate", "UNIQUE constraint failed")
            /\ procs' = Finish(p)

\* C12: however the statements of projectCreate requests interleave, no
\* two projects ever share a slug; an INSERT whose slug was taken after it
\* was probed is rejected by the UNIQUE constraint: the request fails, is
\* not retried, and leaves neither a projects row nor a project_teams row.
C12_SlugCollisionRejected ==
    []SlugsAreDistinct /\ [][RejectedProjectInsertWritesNoRow]_vars

\* Two projectCreate requests probed the same free slug; the second INSERT
\* was rejected and only the first project is stored.
C12_Witness ==
    /\ last.op = "projectCreate"
    /\ last.status = "UNIQUE constraint failed"
    /\ AllIdle
    /\ Cardinality(projects) = 1
    /\ Cardinality({r.project_id : r \in project_teams}) = 1
    /\ \E r \in projects : r.slug_id = slugify(r.name)

\* The rows seed_defaults leaves in a store that was empty.
SeedIsExact ==
    /\ Cardinality(users) = 1
    /\ \A u \in users : u.id = ViewerId
    /\ Cardinality(teams) = 1
    /\ \A t \in teams : t.id = TeamId
    /\ team_members = {[team_id |-> TeamId, user_id |-> ViewerId]}
    /\ Cardinality(workflow_states) = 5
    /\ {<<w.team_id, w.name, w.position>> : w \in workflow_states}
           = {<<TeamId, "Backlog", 0>>, <<TeamId, "In Progress", 1>>,
              <<TeamId, "In Review", 2>>, <<TeamId, "Done", 3>>,
              <<TeamId, "Canceled", 4>>}
    /\ \A a, b \in workflow_states :
           (a.team_id = b.team_id /\ a.name = b.name) => a = b

LaterRunWritesNothing ==
    run_from_env => UNCHANGED <<store, clock, nextId>>

\* C13: after the first migrate and seed_defaults the store holds one
\* user, one team, the membership linking them and the five states Backlog,
\* In Progress, In Review, Done, Canceled at positions 0 to 4, their names
\* unique within the team; every later run of migrate and seed_defaults
\* leaves every table as it was.
C13_SeedIsIdempotent ==
    []SeedIsExact /\ [][LaterRunWritesNothing]_vars

\* migrate and seed_defaults ran again on a store that holds an issue.
C13_Witness ==
    /\ last.op = "run_from_env"
    /\ issues # {}
    /\ Cardinality(workflow_states) = 5
    /\ \A u \in users : u.created_at = 0

\* The DELETE removes the projects of another id that hold the slug, and
\* nothing else.
ImportDeletesSlugHolders ==
    \A input \in AdminImportProjectInputs :
        import_project_1to1(input) =>
            /\ \A r \in projects' : r \in projects
            /\ \A r \in projects :
                   r \in projects' <=>
                       (r.id = input.id \/ r.slug_id # input.slug_id)

\* The upsert leaves one project of the id, with the fields of the input,
\* the only holder of the slug; the others are as they were.
ImportStoresInput ==
    \A p \in InFlight :
        import_project_upsert(p) =>
            /\ Cardinality({r \in projects' : r.id = p.input.id}) = 1
            /\ \A r \in projects' :
                   IF r.id = p.input.id
                   THEN /\ r.name = p.input.name
                        /\ r.slug_id = p.input.slug_id
                        /\ r.state = p.input.state
                        /\ r.archived_at = p.input.archived_at
                        /\ r.url = p.input.url
                   ELSE /\ r.slug_id # p.input.slug_id
                        /\ r \in projects
            /\ \A r \in projects : r.id # p.input.id => r \in projects'
            /\ last' = Entity("adminImportProject", p.input.id)

\* C14: adminImportProject, run with one writer at a time, first deletes
\* exactly the projects of another id that hold input.slugId, then leaves
\* exactly one project with input.id whose name, slug, state, archivedAt
\* and url are those of the input; no other project holds the slug, and
\* the projects of other ids and other slugs are unchanged.
C14_ImportUpsertsById ==
    [][ImportDeletesSlugHolders /\ ImportStoresInput]_vars

\* Two projects were created; the import gave the second the slug of the
\* first, which was deleted.
C14_Witness ==
    /\ last.op = "adminImportProject"
    /\ last.status = "ok"
    /\ Cardinality(projects) = 1
    /\ \E r \in projects :
           /\ r.id = last.id
           /\ r.id # ImportedId
           /\ r.created_at = 2
           /\ r.slug_id = slugify(NameAB)
           /\ r.url = "http://ext/p"

Limited == last.op = "clamp_limit"

\* C15: whatever first is (0, -5 and 10000 included), the limit a listing
\* applies lies in 1..500, and with first absent it is 50.
C15_LimitInRange ==
    Limited =>
        /\ last.limit \in 1..500
        /\ Len(last.nodes) <= last.limit
        /\ last.first = None => last.limit = 50

\* first = 10000 was cut down to 500.
C15_Witness ==
    /\ Limited
    /\ last.first = Some(10000)
    /\ last.limit = 500

\* C16 as stated: the limit is 50 when first is absent and when first is
\* zero or negative.
C16_NonPositiveIsDefault ==
    (Limited /\ (last.first = None \/ Unwrap(last.first) <= 0))
        => last.limit = 50

\* C16: the limit is 50 only when first is absent (or 50 itself); a first
\* that is zero or negative is raised to 1.
C16_NonPositiveIsOne ==
    Limited =>
        /\ last.first = None => last.limit = 50
        /\ (last.first # None /\ Unwrap(last.first) <= 0) => last.limit = 1
        /\ last.limit = 50 => last.first \in {None, Some(50)}

\* first = 0 listed the one team under the limit 1.
C16_Witness ==
    /\ Limited
    /\ last.first = Some(0)
    /\ last.limit = 1
    /\ Len(last.nodes) = 1

ListingOps ==
    {"teams", "projects", "issues", "workflowStates", "viewer.teams",
     "team.states", "project.issues"}

\* The answer of project(id), issue(id) and team(id) by whether a row of
\* the table has the id.
ProjectAnswer(id) ==
    IF id \in IdsOf(projects) THEN Entity("project", id)
    ELSE Failed("project", "Entity not found: Project")

IssueAnswer(id) ==
    IF id \in IdsOf(issues) THEN Entity("issue", id)
    ELSE Failed("issue", "Entity not found: Issue")

TeamAnswer(id) ==
    IF id \in IdsOf(teams) THEN Entity("team", id)
    ELSE Resp("team", "ok", TRUE, TRUE, "", <<>>)

FetchesAnswerAbsence ==
    \A authorized \in BOOLEAN :
        ensure_auth(authorized) =>
            /\ QueryRoot_project(authorized) =>
                   last' \in {ProjectAnswer(id) : id \in ProjectIdInputs}
            /\ QueryRoot_issue(authorized) =>
                   last' \in {IssueAnswer(id) : id \in IssueIdInputs}
            /\ QueryRoot_team(authorized) =>
                   last' \in {TeamAnswer(id) : id \in {TeamId, AbsentTeam}}

\* A listing that was admitted answered with a list.
ListingsNeverFail ==
    (last.op \in ListingOps /\ last.status # "Unauthorized") =>
        /\ last.status = "ok"
        /\ last.success

\* Filters that match no row give the empty list.
UnmatchedFiltersListNothing ==
    /\ \A first \in AnyFirst :
           /\ list_issues(Some(IssuesFilter(TeamIdFilter(AbsentTeam),
                                            None, None, None)),
                          first, None) = <<>>
           /\ list_teams(Some(TeamsFilter(Some(StringFilter(Some("Nobody"),
                                                            None)))),
                         first) = <<>>
           /\ list_projects(Some(ProjectsFilter(Some(StringFilter(
                                Some(<<"N", "o">>), None)))),
                            first) = <<>>
    /\ list_workflow_states(Some(WorkflowStatesFilter(
                                    TeamIdFilter(AbsentTeam)))) = <<>>

\* C17: project(id) and issue(id) with an id of no row fail with "Entity
\* not found: Project" and "Entity not found: Issue"; team(id) with an id of
\* no row answers without error and without a team; a listing never fails,
\* and one whose filter matches no row (issues of a team that does not
\* exist) answers the empty list.
C17_AbsenceByFetchAndListing ==
    [](ListingsNeverFail /\ UnmatchedFiltersListNothing)
        /\ [][FetchesAnswerAbsence]_vars

\* issue(id) of an id no row has, asked of a store that holds an issue.
C17_Witness ==
    /\ last.op = "issue"
    /\ last.status = "Entity not found: Issue"
    /\ issues # {}
    /\ list_issues(Some(IssuesFilter(TeamIdFilter(AbsentTeam),
                                     None, None, None)), None, None) = <<>>
    /\ list_issues(None, None, None) # <<>>

\* Every issue row is there after the step, archived if it was.
IssueRowsAreKept ==
    \A i \in issues :
        \E j \in issues' :
            /\ j.id = i.id
            /\ i.archived => j.archived

\* issueArchive keeps every row: the one of the id has the flag set and a
\* new updated_at and is otherwise as it was, the others are untouched.
ArchiveOnlyFlags ==
    \A id \in IssueIdInputs :
        archive_issue(id) =>
            /\ IdsOf(issues') = IdsOf(issues)
            /\ \A i \in issues :
                   IF i.id = id
                   THEN \E j \in issues' :
                            /\ j.archived
                            /\ j = [i EXCEPT !.archived = TRUE,
                                             !.updated_at = j.updated_at]
                   ELSE i \in issues'

\* C18: no step removes an issue row, so the set of issue ids only grows;
\* issueArchive sets the archived flag of the row (and its updated_at) and
\* removes nothing; an archived flag that is set stays set under every
\* later step.
C18_SoftDeleteOnly ==
    [][IssueRowsAreKept /\ ArchiveOnlyFlags]_vars

\* A label was added to an issue that had been archived: the row is there
\* and still archived.
C18_Witness ==
    /\ last.op = "issueAddLabel"
    /\ last.success
    /\ \E i \in issues : i.id = last.id /\ i.archived

\* A call in flight has probed no more candidates than the store has
\* projects, and the candidates before the current one are all taken.
ProbesAreBounded ==
    \A p \in InFlight :
        p.op = "next_project_slug" =>
            /\ p.i - 2 <= Cardinality(projects)
            /\ p.i < MaxProbes
            /\ p.candidate = Candidate(p.base, p.i - 1)
            /\ \A j \in 1..(p.i - 2) : SlugTaken(Candidate(p.base, j))

\* The call returned a slug no project holds: the one the loop computes,
\* after at most one probe more than the store has projects.
ProbeReturned ==
    /\ AllIdle
    /\ last.op = "next_project_slug"
    /\ ~SlugTaken(last.slug)
    /\ last.slug = next_project_slug(last.name)
    /\ last.probes <= Cardinality(projects) + 1

\* C19: over a store that no other request writes, for every name and
\* every set of stored slugs, the loop of next_project_slug returns after
\* at most one probe more than the store has projects, with a slug that no
\* stored project holds.
C19_ProbeTerminates ==
    []ProbesAreBounded /\ <>[]ProbeReturned

\* The base slug and the suffixes 2 and 3 were taken: the fourth probe
\* returned the suffix 4.
C19_Witness ==
    /\ last.op = "next_project_slug"
    /\ last.probes = 4
    /\ last.slug = Candidate(slugify(last.name), 4)
    /\ Cardinality(projects) >= 3

\* The issues filters with one equality leaf, of the value given.
TeamIdEq(v) ==
    Some(IssuesFilter(Some(TeamFilter(Some(IdFilter(v)), None, None)),
                      None, None, None))

TeamKeyEq(v) ==
    Some(IssuesFilter(Some(TeamFilter(None, Some(StringFilter(v, None)), None)),
                      None, None, None))

ProjectIdEq(v) ==
    Some(IssuesFilter(None, Some(ProjectFilter(Some(IdFilter(v)), None)),
                      None, None))

StateNameEq(v) ==
    Some(IssuesFilter(None, None, Some(StateFilter(Some(StringFilter(v, None)))),
                      None))

TeamNameEq(v) == Some(TeamsFilter(Some(StringFilter(v, None))))

ProjectNameEq(v) == Some(ProjectsFilter(Some(StringFilter(v, None))))

EmptyNameIsSkipped ==
    \A first \in AnyFirst :
        /\ list_teams(TeamNameEq(Some("")), first)
               = list_teams(TeamNameEq(None), first)
        /\ list_projects(ProjectNameEq(Some(<<>>)), first)
               = list_projects(ProjectNameEq(None), first)

EmptyIssueLeafIsSkipped ==
    \A first \in AnyFirst :
        /\ list_issues(TeamIdEq(Some("")), first, None)
               = list_issues(TeamIdEq(None), first, None)
        /\ list_issues(TeamKeyEq(Some("")), first, None)
               = list_issues(TeamKeyEq(None), first, None)
        /\ list_issues(ProjectIdEq(Some("")), first, None)
               = list_issues(ProjectIdEq(None), first, None)
        /\ list_issues(StateNameEq(Some("")), first, None)
               = list_issues(StateNameEq(None), first, None)

\* C20: in the filters of teams, projects and issues, an equality leaf
\* whose value is the empty string emits no predicate: the listing is the
\* one of the same query with the leaf absent.
C20_EmptyEqualityIsSkipped ==
    EmptyNameIsSkipped /\ EmptyIssueLeafIsSkipped

\* An issue is listed without a filter and not listed under team.id.eq = "":
\* the predicate i.team_id = '' was emitted.
C20_Witness ==
    /\ EmptyNameIsSkipped
    /\ list_issues(TeamIdEq(None), None, None) # <<>>
    /\ list_issues(TeamIdEq(Some("")), None, None) = <<>>

\* number: {in: []} and number: {} beside number left out.
EmptyNumberFilters == {Some(FloatFilter(Some(<<>>))), Some(FloatFilter(None))}

\* A number filter with an empty set lists what the same filter without
\* the number part lists.
EmptySetIsSkipped ==
    \A t \in AnyTeamFilter, s \in AnyStateFilter, n \in EmptyNumberFilters,
       first \in AnyFirst :
        list_issues(Some(IssuesFilter(t, None, s, n)), first, None)
            = list_issues(Some(IssuesFilter(t, None, s, None)), first, None)

\* Branches that are absent, or present without a leaf, list what no
\* filter lists.
AbsentBranchesAreSkipped ==
    \A first \in AnyFirst :
        \A f \in {Some(IssuesFilter(None, None, None, None)),
                  Some(IssuesFilter(Some(TeamFilter(None, None, None)),
                                    Some(ProjectFilter(None, None)),
                                    Some(StateFilter(None)),
                                    Some(FloatFilter(None)))),
                  Some(IssuesFilter(Some(TeamFilter(Some(IdFilter(None)),
                                                    Some(StringFilter(None, None)),
                                                    None)),
                                    Some(ProjectFilter(Some(IdFilter(None)), None)),
                                    Some(StateFilter(Some(StringFilter(None, None)))),
                                    Some(FloatFilter(Some(<<>>)))))} :
            list_issues(f, first, None) = list_issues(None, first, None)

\* C21: in issues(), a filter branch that is absent and a number.in with
\* an empty set emit no predicate: the listing is the one of the filter
\* without that part, so an empty set matches every issue and not none.
C21_EmptyPartsAreSkipped ==
    EmptySetIsSkipped /\ AbsentBranchesAreSkipped

\* An issue is listed under number: {in: []} as it is without a filter.
C21_Witness ==
    /\ last.op = "issues"
    /\ last.status = "ok"
    /\ list_issues(None, None, None) # <<>>
    /\ list_issues(Some(IssuesFilter(None, None, None,
                                     Some(FloatFilter(Some(<<>>))))),
                   None, None) = list_issues(None, None, None)

\* value passes the eq and the neq leaf of a string filter, as far as they
\* are present and not empty.
HonoursString(sf, value, empty) ==
    IsSome(sf) =>
        /\ (IsSome(Unwrap(sf).eq) /\ Unwrap(Unwrap(sf).eq) # empty)
               => value = Unwrap(Unwrap(sf).eq)
        /\ (IsSome(Unwrap(sf).neq) /\ Unwrap(Unwrap(sf).neq) # empty)
               => value # Unwrap(Unwrap(sf).neq)

HonoursId(idf, value) ==
    (IsSome(idf) /\ IsSome(Unwrap(idf).eq) /\ Unwrap(Unwrap(idf).eq) # "")
        => value = Unwrap(Unwrap(idf).eq)

\* The issue passes every leaf of the filter.
Satisfies(i, f) ==
    LET t  == joined(teams, Some(i.team_id))
        p  == joined(projects, i.project_id)
        ws == joined(workflow_states, Some(i.state_id))
    IN  /\ IsSome(f.team) =>
               /\ HonoursId(Unwrap(f.team).id, i.team_id)
               /\ IsSome(t) => /\ HonoursString(Unwrap(f.team).key,
                                                 Unwrap(t).key, "")
                               /\ HonoursString(Unwrap(f.team).name,
                                                 Unwrap(t).name, "")
        /\ IsSome(f.project) =>
               /\ IsSome(Unwrap(f.project).id) =>
                      i.project_id = Unwrap(Unwrap(f.project).id).eq
               /\ IsSome(p) => HonoursString(Unwrap(f.project).name,
                                             Unwrap(p).name, <<>>)
        /\ IsSome(f.state) =>
               (IsSome(ws) => HonoursString(Unwrap(f.state).name,
                                            Unwrap(ws).name, ""))
        /\ (IsSome(f.number) /\ IsSome(Unwrap(f.number).in_values)
                             /\ Unwrap(Unwrap(f.number).in_values) # <<>>) =>
               \E k \in DOMAIN Unwrap(Unwrap(f.number).in_values) :
                   i.number * 10 = Unwrap(Unwrap(f.number).in_values)[k]

\* The leaves list_issues compiles, one or several in a filter.
CompiledIssuesFilters == AnyIssuesFilter \ {None}

\* The other leaves of the input types, one in a filter.
OtherIssuesFilters ==
    {Some(IssuesFilter(Some(TeamFilter(None, Some(StringFilter(None,
                                           Some(SeedTeamKey))), None)),
                       None, None, None)),
     Some(IssuesFilter(Some(TeamFilter(None, None,
                                       Some(StringFilter(Some("Nobody"), None)))),
                       None, None, None)),
     Some(IssuesFilter(Some(TeamFilter(None, None,
                                       Some(StringFilter(None,
                                                         Some(SeedTeamName))))),
                       None, None, None)),
     Some(IssuesFilter(None,
                       Some(ProjectFilter(None,
                                          Some(StringFilter(Some(NameAb), None)))),
                       None, None)),
     Some(IssuesFilter(None,
                       Some(ProjectFilter(None,
                                          Some(StringFilter(None, Some(NameAB))))),
                       None, None))}

IssuesHonour(filters) ==
    \A f \in filters : \A first \in AnyFirst :
        \A i \in Listed(list_issues(f, first, None)) : Satisfies(i, Unwrap(f))

NamesHonour ==
    \A first \in AnyFirst :
        /\ \A sf \in {StringFilter(Some(SeedTeamName), None),
                       StringFilter(Some("Nobody"), None),
                       StringFilter(None, Some(SeedTeamName))} :
               \A t \in Listed(list_teams(Some(TeamsFilter(Some(sf))), first)) :
                   HonoursString(Some(sf), t.name, "")
        /\ \A sf \in {StringFilter(Some(NameAB), None),
                       StringFilter(None, Some(NameAB))} :
               \A p \in Listed(list_projects(Some(ProjectsFilter(Some(sf))),
                                             first)) :
                   HonoursString(Some(sf), p.name, <<>>)

\* The part that holds: the leaves list_issues compiles are combined with
\* AND, as long as number.in holds whole numbers.
CompiledLeavesAreConjoined ==
    IssuesHonour({f \in CompiledIssuesFilters : Unwrap(f).number = None}
                     \cup (IssuesFilterInputs \ {None}))

\* C22: every issue issues(filter) returns passes every non-empty leaf of
\* the filter (team.id.eq, team.key, team.name, project.id.eq,
\* project.name, state.name, number.in), and the teams and projects
\* listings return only rows that pass the eq and the neq of the name leaf.
C22_EveryLeafIsHonoured ==
    /\ IssuesHonour(CompiledIssuesFilters \cup OtherIssuesFilters)
    /\ NamesHonour

\* An issue of the seeded team is listed under team.key.neq = "SYN", and
\* the seeded team under name.neq = "Synth", while the compiled leaves hold.
C22_Witness ==
    /\ CompiledLeavesAreConjoined
    /\ \E i \in Listed(list_issues(
                Some(IssuesFilter(Some(TeamFilter(None,
                         Some(StringFilter(None, Some(SeedTeamKey))), None)),
                     None, None, None)), None, None)) :
           \E t \in teams : t.id = i.team_id /\ t.key = SeedTeamKey
    /\ \E t \in Listed(list_teams(Some(TeamsFilter(Some(
                StringFilter(None, Some(SeedTeamName))))), None)) :
           t.name = SeedTeamName

\* w is the state of the team no other state of the team lies before.
IsLowestState(w, team_id) ==
    /\ w \in workflow_states
    /\ w.team_id = team_id
    /\ \A v \in workflow_states : v.team_id = team_id => w.position <= v.position

\* The row an issueCreate INSERT adds is unarchived, unassigned and in the
\* lowest state of its team.
CreatedIssueStartsFresh ==
    \A p \in InFlight :
        create_issue_insert(p) =>
            \A r \in issues' \ issues :
                /\ ~r.archived
                /\ r.assignee_id = None
                /\ \E w \in workflow_states :
                       /\ w.id = r.state_id
                       /\ IsLowestState(w, r.team_id)
                       /\ r.team_id = TeamId => w.name = "Backlog"

\* C23: every issue issueCreate inserts starts with archived = false, no
\* assignee, and as its state the workflow state of its team with the
\* lowest position when it is created: Backlog in the seeded team.
C23_CreatedIssueStartsFresh ==
    [][CreatedIssueStartsFresh]_vars

\* The second issue of the seeded team, just created: unarchived,
\* unassigned, in the state at position 0.
C23_Witness ==
    /\ last.op = "issueCreate"
    /\ last.status = "ok"
    /\ \E i \in issues :
           /\ i.id = last.id
           /\ i.number = 2
           /\ ~i.archived
           /\ i.assignee_id = None
           /\ \E w \in workflow_states : w.id = i.state_id /\ w.position = 0

IssuesReferToProjects ==
    \A i \in issues :
        IsSome(i.project_id) => Unwrap(i.project_id) \in IdsOf(projects)

ProjectTeamsReferToProjects ==
    \A r \in project_teams : r.project_id \in IdsOf(projects)

\* C24: every issue with a project_id refers to a project row that
\* exists, and every project_teams row refers to a project that exists.
C24_LinksReferToProjects ==
    IssuesReferToProjects /\ ProjectTeamsReferToProjects

\* adminImportProject gave the slug of one project to another and deleted
\* the first: its project_teams row is left without a project.
C24_Witness ==
    /\ AllIdle
    /\ last.op = "adminImportProject"
    /\ last.status = "ok"
    /\ \E r \in project_teams : r.project_id \notin IdsOf(projects)
    /\ \E r \in project_teams : r.project_id \in IdsOf(projects)

====
